---------------------------- MODULE Spec2Model ----------------------------
(***************************************************************************)
(* Model of the task controller of the To-Do MVC application               *)
(* (src/controllers/task_controller.py): the request handlers registered   *)
(* by register_routes, acting on the table of Task rows.                   *)
(*                                                                         *)
(* Python values are records tagged with their type: a str holds the tuple *)
(* of its characters, a datetime its year, month and day (strptime with    *)
(* '%Y-%m-%d' always yields midnight).                                     *)
(***************************************************************************)
EXTENDS Naturals, Sequences, FiniteSets, TLC

VARIABLES
    tasks,      \* the task table: a function from the stored ids to Task rows
    clock,      \* the time source read for created_at
    req,        \* the last request handled
    resp,       \* the response to the last request
    before,     \* the task table as it was when the last request arrived
    prev        \* the op of the request before the last one, when it was answered
                \* with a redirect and named the task id the last one names
                \* ("none" otherwise)

vars == <<tasks, clock, req, resp, before, prev>>

\* The clock ticks at each row created, and stops the model at MaxClock.
MaxClock == 2

----------------------------------------------------------------------------
(* Python values *)

None == [t |-> "None"]

Str(chars) == [t |-> "str", v |-> chars]

datetime(year, month, day) == [t |-> "datetime", year |-> year, month |-> month, day |-> day]

\* Python truthiness of a value that is None or a str
Truthy(v) == v # None /\ v # Str(<<>>)

\* request.form.get(key): the field's value, None when the field is absent
FormGet(form, key) == IF key \in DOMAIN form THEN form[key] ELSE None

\* request.args.get(key, default)
ArgsGet(args, key, default) == IF key \in DOMAIN args THEN args[key] ELSE default

----------------------------------------------------------------------------
(* datetime.strptime(due_date_str, '%Y-%m-%d') *)

ValueError == [t |-> "ValueError"]

Digits == <<"0", "1", "2", "3", "4", "5", "6", "7", "8", "9">>

IsDigit(c) == \E i \in 1..10 : Digits[i] = c

DigitVal(c) == (CHOOSE i \in 1..10 : Digits[i] = c) - 1

\* int(s) for a str of digits, a leading blank ignored
RECURSIVE IntOf(_)
IntOf(s) ==
    IF s = <<>> THEN 0
    ELSE IF s[Len(s)] = " " THEN IntOf(SubSeq(s, 1, Len(s) - 1))
    ELSE 10 * IntOf(SubSeq(s, 1, Len(s) - 1)) + DigitVal(s[Len(s)])

\* %Y is \d\d\d\d
MatchYear(p) == Len(p) = 4 /\ \A i \in 1..4 : IsDigit(p[i])

\* %m is 1[0-2]|0[1-9]|[1-9]
MatchMonth(p) ==
    \/ Len(p) = 2 /\ p[1] = "1" /\ p[2] \in {"0", "1", "2"}
    \/ Len(p) = 2 /\ p[1] = "0" /\ IsDigit(p[2]) /\ p[2] # "0"
    \/ Len(p) = 1 /\ IsDigit(p[1]) /\ p[1] # "0"

\* %d is 3[01]|[12]\d|0[1-9]|[1-9]| [1-9]
MatchDay(p) ==
    \/ Len(p) = 2 /\ p[1] = "3" /\ p[2] \in {"0", "1"}
    \/ Len(p) = 2 /\ p[1] \in {"1", "2"} /\ IsDigit(p[2])
    \/ Len(p) = 2 /\ p[1] \in {"0", " "} /\ IsDigit(p[2]) /\ p[2] # "0"
    \/ Len(p) = 1 /\ IsDigit(p[1]) /\ p[1] # "0"

IsLeap(y) == y % 4 = 0 /\ (y % 100 # 0 \/ y % 400 = 0)

DaysInMonth(y, m) ==
    IF m = 2 THEN (IF IsLeap(y) THEN 29 ELSE 28)
    ELSE IF m \in {4, 6, 9, 11} THEN 30 ELSE 31

\* The datetime parsed from s, or ValueError: s must be year, "-", month, "-",
\* day with nothing left over, and name a day of the calendar.
strptime(str) ==
    LET s == str.v
        dashes == {i \in 1..Len(s) : s[i] = "-"}
    IN  IF Cardinality(dashes) # 2 THEN ValueError
        ELSE LET d1 == CHOOSE i \in dashes : \A j \in dashes : i <= j
                 d2 == CHOOSE i \in dashes : \A j \in dashes : j <= i
                 ys == SubSeq(s, 1, d1 - 1)
                 ms == SubSeq(s, d1 + 1, d2 - 1)
                 ds == SubSeq(s, d2 + 1, Len(s))
             IN  IF ~(MatchYear(ys) /\ MatchMonth(ms) /\ MatchDay(ds)) THEN ValueError
                 ELSE LET y == IntOf(ys)
                          m == IntOf(ms)
                          d == IntOf(ds)
                      IN  IF y < 1 \/ d > DaysInMonth(y, m) THEN ValueError
                          ELSE datetime(y, m, d)

----------------------------------------------------------------------------
(* Requests *)

FormKeys == {"title", "description", "due_date"}

NoForm == [key \in {} |-> None]

\* The form with the given fields, a field given as None being absent
Form(title, description, due_date) ==
    LET field == [key \in FormKeys |->
                    CASE key = "title" -> title
                      [] key = "description" -> description
                      [] key = "due_date" -> due_date]
    IN  [key \in {k \in FormKeys : field[k] # None} |-> field[key]]

\* "2024-02-29"
Date1 == Str(<<"2", "0", "2", "4", "-", "0", "2", "-", "2", "9">>)

\* "2024-2-29": the same day, not zero-padded
Date2 == Str(<<"2", "0", "2", "4", "-", "2", "-", "2", "9">>)

\* "2023-02-29": no such day
BadDate1 == Str(<<"2", "0", "2", "3", "-", "0", "2", "-", "2", "9">>)

\* "soon"
BadDate2 == Str(<<"s", "o", "o", "n">>)

\* The submitted forms: title absent, empty or given; description absent or
\* given; due_date absent, empty, a date or not a date
Forms ==
    { Form(None, None, None),
      Form(Str(<<>>), None, Str(<<>>)),
      Form(None, None, BadDate2),
      Form(Str(<<>>), Str(<<"d">>), BadDate1),
      Form(Str(<<"a">>), None, None),
      Form(Str(<<"a">>), None, Str(<<>>)),
      Form(Str(<<"a">>), Str(<<"d">>), Date1),
      Form(Str(<<"b">>), Str(<<"d">>), Date2),
      Form(Str(<<"a">>), None, BadDate1) }

\* The query strings of /tasks: filter and sort may be absent
Args ==
    UNION { { a \in [S -> {"all", "pending", "completed", "title"}] :
                /\ "filter" \in S => a["filter"] \in {"all", "pending", "completed"}
                /\ "sort" \in S => a["sort"] \in {"title"} } :
            S \in SUBSET {"filter", "sort"} }

\* The ids a request may name: those the table can have given out
Ids == 1..MaxClock

Request(op, method, task_id, args, form) ==
    [op |-> op, method |-> method, id |-> task_id, args |-> args, form |-> form]

----------------------------------------------------------------------------
(* Responses *)

\* render_template(name, **context): status 200
render_template(name, context) ==
    [status |-> 200, kind |-> "render", name |-> name, data |-> context, flash |-> None]

\* redirect(url_for(endpoint, **values)), with what flash() queued before it
redirect(endpoint, values, flashed) ==
    [status |-> 302, kind |-> "redirect", name |-> endpoint, data |-> values,
     flash |-> flashed]

flash(message, category) == [message |-> message, category |-> category]

\* A 404 page sent without its status
not_found_error_200 == render_template("404.html", None)

\* @app.errorhandler(404), reached from get_or_404
not_found_error == [render_template("404.html", None) EXCEPT !.status = 404]

\* @app.errorhandler(500), reached from an exception a handler lets escape;
\* its rollback drops what the session had pending
internal_error == [render_template("500.html", None) EXCEPT !.status = 500]

----------------------------------------------------------------------------
(* The task table *)

\* The id the table gives a new row
NewId(ts) ==
    IF DOMAIN ts = {} THEN 1
    ELSE (CHOOSE i \in DOMAIN ts : \A j \in DOMAIN ts : j <= i) + 1

\* Task(title=..., description=..., due_date=..., completed=False), added and
\* committed: the table sets id and created_at
NewTask(ts, now, title, description, due_date) ==
    [id |-> NewId(ts), title |-> title, description |-> description,
     due_date |-> due_date, completed |-> FALSE, created_at |-> now]

\* db.session.add(task); db.session.commit()
Added(ts, task) == [i \in DOMAIN ts \cup {task.id} |-> IF i = task.id THEN task ELSE ts[i]]

\* A delete that never reaches the table
Deleted_kept(ts, task_id) == ts

\* db.session.delete(task); db.session.commit()
Deleted(ts, task_id) == [i \in DOMAIN ts \ {task_id} |-> ts[i]]

\* A toggle that can only complete
Toggled_stuck(task) == [task EXCEPT !.completed = TRUE]

\* task.completed = not task.completed
Toggled(task) == [task EXCEPT !.completed = ~task.completed]

\* An edit that also reopens the row
Edited_reset(task, title, description, due_date) ==
    [task EXCEPT !.title = title, !.description = description, !.due_date = due_date,
                 !.completed = FALSE]

\* task.title = title; task.description = description; task.due_date = due_date
Edited(task, title, description, due_date) ==
    [task EXCEPT !.title = title, !.description = description, !.due_date = due_date]

\* Task.query.get_or_404(task_id) finds a row
Found(ts, task_id) == task_id \in DOMAIN ts

\* datetime.strptime(due_date_str, '%Y-%m-%d') if due_date_str else None
ParseDueDate(due_date_str) ==
    IF Truthy(due_date_str) THEN strptime(due_date_str) ELSE None

\* A check of the title that lets the empty string through
TitleMissing_none(title) == title = None

\* if not title
TitleMissing(title) == ~Truthy(title)

----------------------------------------------------------------------------
(* The handlers.  Each is one request handled to its response. *)

\* The request r is answered with rs, leaving the table ts and the time now
Handled(r, rs, ts, now) ==
    /\ req' = r
    /\ resp' = rs
    /\ tasks' = ts
    /\ clock' = now
    /\ before' = tasks
    /\ prev' = IF resp.status = 302 /\ req.id = r.id /\ r.id # 0 THEN req.op ELSE "none"

\* GET /
index ==
    Handled(Request("index", "GET", 0, NoForm, NoForm),
            redirect("task_list", None, None), tasks, clock)

\* GET /tasks
task_list(args) ==
    LET filter_type == ArgsGet(args, "filter", "all")
        sort_by == ArgsGet(args, "sort", "created")
        shown == <<>>
        context == [tasks |-> shown, filter_type |-> filter_type, sort_by |-> sort_by,
                    total_tasks |-> Len(shown), pending_count |-> 0,
                    completed_count |-> 0]
    IN  Handled(Request("task_list", "GET", 0, args, NoForm),
                render_template("task_list.html", context), tasks, clock)

\* GET, POST /tasks/new
task_create(method, form) ==
    LET r == Request("task_create", method, 0, NoForm, form)
        title == FormGet(form, "title")
        description == FormGet(form, "description")
        due_date_str == FormGet(form, "due_date")
        due_date == ParseDueDate(due_date_str)
        task == NewTask(tasks, clock, title, description, due_date)
    IN  IF method = "POST"
        THEN IF due_date = ValueError
             THEN Handled(r, internal_error, tasks, clock)
             ELSE IF TitleMissing(title)
             THEN Handled(r, redirect("task_create", None,
                                      flash("El titulo es obligatorio.", "danger")),
                          tasks, clock)
             ELSE /\ clock < MaxClock
                  /\ Handled(r, redirect("task_list", None,
                                         flash("Tarea creada correctamente.", "success")),
                             Added(tasks, task), clock + 1)
        ELSE Handled(r, render_template("task_form.html",
                                        [action |-> "Crear", task |-> None]),
                     tasks, clock)

\* GET /tasks/<task_id>
task_detail(task_id) ==
    LET r == Request("task_detail", "GET", task_id, NoForm, NoForm)
    IN  IF ~Found(tasks, task_id)
        THEN Handled(r, not_found_error, tasks, clock)
        ELSE Handled(r, render_template("task_detail.html", [task |-> tasks[task_id]]),
                     tasks, clock)

\* GET, POST /tasks/<task_id>/edit
task_edit(task_id, method, form) ==
    LET r == Request("task_edit", method, task_id, NoForm, form)
        title == FormGet(form, "title")
        description == FormGet(form, "description")
        due_date_str == FormGet(form, "due_date")
        due_date == ParseDueDate(due_date_str)
    IN  IF ~Found(tasks, task_id)
        THEN Handled(r, not_found_error, tasks, clock)
        ELSE IF method = "POST"
        THEN IF due_date = ValueError
             THEN Handled(r, internal_error, tasks, clock)
             ELSE IF TitleMissing(title)
             THEN Handled(r, redirect("task_edit", [task_id |-> task_id],
                                      flash("El titulo es obligatorio.", "danger")),
                          tasks, clock)
             ELSE Handled(r, redirect("task_detail", [task_id |-> task_id],
                                      flash("Tarea actualizada correctamente.", "success")),
                          [tasks EXCEPT ![task_id] =
                               Edited(tasks[task_id], title, description, due_date)],
                          clock)
        ELSE Handled(r, render_template("task_form.html",
                                        [action |-> "Editar", task |-> tasks[task_id]]),
                     tasks, clock)

\* POST /tasks/<task_id>/delete
task_delete(task_id) ==
    LET r == Request("task_delete", "POST", task_id, NoForm, NoForm)
    IN  IF ~Found(tasks, task_id)
        THEN Handled(r, not_found_error, tasks, clock)
        ELSE Handled(r, redirect("task_list", None, flash("Tarea eliminada.", "success")),
                     Deleted(tasks, task_id), clock)

\* POST /tasks/<task_id>/toggle
task_toggle(task_id) ==
    LET r == Request("task_toggle", "POST", task_id, NoForm, NoForm)
    IN  IF ~Found(tasks, task_id)
        THEN Handled(r, not_found_error, tasks, clock)
        ELSE Handled(r, redirect("task_list", None,
                                 flash("Estado de la tarea actualizado.", "info")),
                     [tasks EXCEPT ![task_id] = Toggled(tasks[task_id])], clock)

----------------------------------------------------------------------------
(* The application *)

\* create_app(): the table is created empty and no request has been handled
Init ==
    /\ tasks = NoForm
    /\ clock = 0
    /\ req = Request("none", "GET", 0, NoForm, NoForm)
    /\ resp = render_template("none", None)
    /\ before = NoForm
    /\ prev = "none"

Index == index

TaskList == \E args \in Args : task_list(args)

\* A GET carries no form
TaskCreate ==
    \/ task_create("GET", NoForm)
    \/ \E form \in Forms : task_create("POST", form)

TaskDetail == \E task_id \in Ids : task_detail(task_id)

TaskEdit ==
    \E task_id \in Ids :
        \/ task_edit(task_id, "GET", NoForm)
        \/ \E form \in Forms : task_edit(task_id, "POST", form)

TaskDelete == \E task_id \in Ids : task_delete(task_id)

TaskToggle == \E task_id \in Ids : task_toggle(task_id)

\* register_routes(app): the routes a request can take
Next ==
    \/ Index
    \/ TaskList
    \/ TaskCreate
    \/ TaskDetail
    \/ TaskEdit
    \/ TaskDelete
    \/ TaskToggle

Spec == Init /\ [][Next]_vars

----------------------------------------------------------------------------
(* What the claims speak of *)

Rows(ts) == {ts[i] : i \in DOMAIN ts}

Shown(response) == {response.data.tasks[i] : i \in 1..Len(response.data.tasks)}

Submitted(key) == FormGet(req.form, key)

IsPost(op) == req.op = op /\ req.method = "POST"

\* The last request named a row the table held
OnStored == req.id \in DOMAIN before

\* The response carries the message of a failed validation
ValidationMessage ==
    IF resp.flash = None THEN FALSE ELSE resp.flash.category = "danger"

\* The rows other than the one the last request named are as they were
OthersKept ==
    \A i \in DOMAIN before \ {req.id} : i \in DOMAIN tasks /\ tasks[i] = before[i]

----------------------------------------------------------------------------
(* C1 *)

\* C1: the list shows, under filter 'pending', exactly the stored rows that are
\* not completed; under 'completed', exactly those that are; under 'all', every
\* stored row.
C1_ListFilters ==
    req.op = "task_list" =>
        LET filter_type == resp.data.filter_type
        IN  /\ filter_type = "pending" => Shown(resp) = {t \in Rows(tasks) : ~t.completed}
            /\ filter_type = "completed" => Shown(resp) = {t \in Rows(tasks) : t.completed}
            /\ filter_type = "all" => Shown(resp) = Rows(tasks)

----------------------------------------------------------------------------
(* C2 *)

\* C2: a create submit whose title is empty or absent stores nothing and ends
\* with the validation message, whatever description and due_date come with it.
C2_EmptyTitleRejected ==
    (IsPost("task_create") /\ ~Truthy(Submitted("title"))) =>
        (tasks = before /\ ValidationMessage)

----------------------------------------------------------------------------
(* C3 *)

\* C3: a toggle of a stored row negates its completed flag, and a toggle that
\* directly follows a toggle of the same row leaves the table as it was
\* before the first of the two.
C3_ToggleInvolution ==
    [][ (req'.op = "task_toggle" /\ req'.id \in DOMAIN tasks) =>
            /\ tasks'[req'.id].completed = ~tasks[req'.id].completed
            /\ (req.op = "task_toggle" /\ req.id = req'.id /\ resp.status = 302) =>
                   (tasks' = before /\ tasks'[req'.id] = before[req'.id]) ]_vars

\* Two toggles of the same stored row have followed one another
C3_Witness ==
    /\ req.op = "task_toggle"
    /\ prev = "task_toggle"
    /\ resp.status = 302
    /\ tasks[req.id].completed = ~before[req.id].completed

----------------------------------------------------------------------------
(* C4 *)

\* C4: directly after a delete that succeeded, a detail request and a second
\* delete for the same id are both answered 404, not with a redirect.
C4_DeletedIsGone ==
    (prev = "task_delete" /\ req.op \in {"task_detail", "task_delete"}) =>
        (resp.status = 404 /\ resp.kind # "redirect" /\ req.id \notin DOMAIN tasks)

\* A detail request has followed the delete of its id
C4_Witness ==
    /\ prev = "task_delete"
    /\ req.op = "task_detail"
    /\ resp.status = 404
    /\ tasks # NoForm

----------------------------------------------------------------------------
(* C5 *)

\* C5: a create submit with a non-empty title adds exactly one row, under an id
\* no stored row had, not completed, with the submitted title and description
\* and the submitted due date, and leaves the rows stored before as they were.
C5_CreateAddsRow ==
    (IsPost("task_create") /\ Truthy(Submitted("title"))) =>
        /\ \E i \in DOMAIN tasks \ DOMAIN before :
              /\ DOMAIN tasks = DOMAIN before \cup {i}
              /\ tasks[i].id = i
              /\ tasks[i].completed = FALSE
              /\ tasks[i].title = Submitted("title")
              /\ tasks[i].description = Submitted("description")
              /\ tasks[i].due_date = ParseDueDate(Submitted("due_date"))
        /\ OthersKept

----------------------------------------------------------------------------
(* C6 *)

\* C6: a create or edit submit with a non-empty title whose due_date is absent
\* or is no date does not fail, and stores the row with a null due_date.
C6_NoDateStoredNull ==
    LET due_date == ParseDueDate(Submitted("due_date"))
    IN  (/\ IsPost("task_create") \/ (IsPost("task_edit") /\ OnStored)
         /\ Truthy(Submitted("title"))
         /\ due_date \in {None, ValueError}) =>
            /\ resp.status = 302
            /\ \E i \in DOMAIN tasks :
                  /\ IsPost("task_edit") => i = req.id
                  /\ IsPost("task_create") => i \notin DOMAIN before
                  /\ tasks[i].due_date = None

----------------------------------------------------------------------------
(* C7 *)

\* C7: a create or edit submit that fails validation on its empty title is
\* answered with the form rendered again, status 200, and the table unchanged.
C7_ValidationRendersForm ==
    (/\ IsPost("task_create") \/ (IsPost("task_edit") /\ OnStored)
     /\ ~Truthy(Submitted("title"))
     /\ ValidationMessage) =>
        /\ resp.status = 200
        /\ resp.kind = "render"
        /\ resp.name = "task_form.html"
        /\ tasks = before

----------------------------------------------------------------------------
(* C8 *)

\* C8: a detail, edit, toggle or delete request that names an id with no
\* stored row is answered 404 and leaves the table as it was.
C8_AbsentIdNotFound ==
    (req.op \in {"task_detail", "task_edit", "task_toggle", "task_delete"} /\ ~OnStored) =>
        (resp.status = 404 /\ resp.name = "404.html" /\ tasks = before)

\* An edit with a good form has been submitted for an id the table, holding
\* other rows, does not have
C8_Witness ==
    /\ IsPost("task_edit")
    /\ ~OnStored
    /\ Truthy(Submitted("title"))
    /\ tasks # NoForm
    /\ resp.status = 404

----------------------------------------------------------------------------
(* C9 *)

\* C9: every stored row has a non-empty title and a completed flag that is
\* true or false, and no two stored rows have the same id.
C9_RowInvariant ==
    \A i \in DOMAIN tasks :
        /\ tasks[i].title.t = "str" /\ tasks[i].title.v # <<>>
        /\ tasks[i].completed \in BOOLEAN
        /\ \A j \in DOMAIN tasks : tasks[i].id = tasks[j].id => i = j

\* An edit with an empty title has been submitted for one of two stored rows
C9_Witness ==
    /\ IsPost("task_edit")
    /\ OnStored
    /\ Submitted("title") = Str(<<>>)
    /\ Cardinality(DOMAIN tasks) = 2

----------------------------------------------------------------------------
(* C10 *)

\* C10: a toggle changes nothing of its row but completed; an edit changes
\* nothing of its row but title, description and due_date; a delete removes
\* its row alone; and each leaves every other stored row as it was.
C10_Frame ==
    /\ (req.op = "task_toggle" /\ OnStored) =>
           /\ DOMAIN tasks = DOMAIN before
           /\ OthersKept
           /\ tasks[req.id] = [before[req.id] EXCEPT !.completed = tasks[req.id].completed]
    /\ (req.op = "task_edit" /\ OnStored) =>
           /\ DOMAIN tasks = DOMAIN before
           /\ OthersKept
           /\ tasks[req.id].id = before[req.id].id
           /\ tasks[req.id].completed = before[req.id].completed
           /\ tasks[req.id].created_at = before[req.id].created_at
    /\ (req.op = "task_delete" /\ OnStored) =>
           /\ DOMAIN tasks = DOMAIN before \ {req.id}
           /\ OthersKept

\* An edit has changed the title of a completed row, another row being stored
C10_Witness ==
    /\ IsPost("task_edit")
    /\ OnStored
    /\ resp.name = "task_detail"
    /\ before[req.id].completed
    /\ tasks[req.id].title # before[req.id].title
    /\ Cardinality(DOMAIN tasks) = 2

=============================================================================
